---- MODULE Spec2Model ----
(***************************************************************************)
(* A model of the resilient API client and analysis orchestrator:          *)
(*   - RateLimiter.acquire          (utils/rate_limiter.py)                *)
(*   - MainController.analyze_ticker, _perform_ticker_analysis,            *)
(*     cancel_analysis, batch_analyze_watchlist                            *)
(*                                  (controllers/main_controller.py)       *)
(*   - UnusualWhalesAPIService session handling, _make_request,            *)
(*     _process_response, get_multiple_stock_data                          *)
(*                                  (services/api_service.py)              *)
(*   - CacheManager.get, set        (utils/cache.py)                       *)
(*                                                                         *)
(* Coroutines run on one asyncio event loop: the code between two awaits   *)
(* that really suspend is one atomic action.                               *)
(*                                                                         *)
(* Six specifications share the variables:                                 *)
(*   SpecRL     the rate limiter with concurrent callers and a clock;      *)
(*   Spec       the orchestrator under concurrent analyze_ticker and       *)
(*              cancel_analysis calls, with the shared HTTP session;       *)
(*   SpecBatch  one batch_analyze_watchlist call, with cancellations;      *)
(*   SpecCache  the cache under direct set() and get() calls and a clock;  *)
(*   SpecApi    concurrent _make_request calls on one service;            *)
(*   SpecMulti  one get_multiple_stock_data call.                          *)
(***************************************************************************)
EXTENDS Integers, Sequences, FiniteSets, TLC

\* ---------------------------------------------------------------- bounds
\* Number of concurrent callers of RateLimiter.acquire().
NumCallers == 2
\* Clock ticks in one second (the resolution of the simulated clock).
TicksPerSecond == 4
\* The simulated clock stops here.
MaxClock == 8
\* Largest configured rate_per_second (0 disables throttling).
MaxRate == 2
\* Number of tickers on the watchlist.
NumTickers == 2
\* Number of analyze_ticker calls made outside the batch.
MaxDirect == 2
\* Number of cancel_analysis calls.
MaxCancel == 1
\* Largest ttl, in ticks, a caller passes to the cache.
MaxTtl == 1
\* config.cache.default_ttl, in ticks of the simulated clock.
DefaultTtl == 2
\* Number of _make_request calls made.
MaxCalls == 3
\* The simulated clock stops here while requests are made.
MaxApiClock == 2
\* Largest number of query parameters of a request.
MaxParams == 2
\* Number of add_to_watchlist calls made.
MaxAdds == 4

VARIABLES
    \* ---- RateLimiter
    clock,        \* time.monotonic(), in ticks
    rate,         \* rate_per_second given to the constructor
    rlLast,       \* RateLimiter._last
    rlLock,       \* RateLimiter._lock: 0 when free, else the caller holding it
    rlpc,         \* caller -> "idle" | "wait" (for the lock) | "sleep" (in asyncio.sleep)
    rlWake,       \* caller -> the time its asyncio.sleep(wait) ends
    rlHistory,    \* the last two values committed to _last, oldest first
    \* ---- MainController
    active,       \* _active_analyses: ticker -> the call whose task is registered, 0 if none
    progressOf,   \* _analysis_progress: ticker -> the call that created the record, 0 if none
    prog,         \* call -> its AnalysisProgress object
    ctick,        \* call -> the ticker it analyses (0 before the call is made)
    opc,          \* call -> position of analyze_ticker / analyze_with_semaphore
    ret,          \* call -> analyze_ticker's return value ("none" until it returns)
    task,         \* call -> state of its _perform_ticker_analysis task
    mustCancel,   \* call -> task.cancel() was requested and is not yet delivered
    lastReq,      \* call -> fate of the last request the pipeline dispatched:
                  \* in flight, answered with or without success, or aborted
    cancelSeen,   \* call -> how cancel_analysis met the run: "no" | "live" | "late"
    nCancel,      \* number of cancel_analysis calls made
    cancelRet,    \* what the last cancel_analysis call returned ("none" before any)
    mutex,        \* _mutex: 0 when unlocked, else the call holding it
    \* ---- batch_analyze_watchlist
    bpc,          \* "idle" | "gather" | "done"
    maxc,         \* max_concurrent
    sem,          \* the semaphore's value
    results,      \* analysis_results: ticker -> "absent" | TRUE | FALSE
    \* ---- UnusualWhalesAPIService
    session,      \* _session: "none" | "open" | "closed"
    scenario,     \* what the upstream does: 0, any answer to any request; t > 0, it
                  \* fails the stock-info requests of ticker t and nothing else fails
    broken,       \* calls whose in-flight request is on a session closed under it
    request_counter, \* _request_counter
    rq,           \* caller -> its _make_request call: position, arguments, what it did
    resp,         \* caller -> the APIResponse its last _make_request call returned
    nAcquire,     \* number of rate_limiter.acquire() calls made by _make_request
    nDispatch,    \* number of session.request() dispatches
    nFault,       \* number of calls ended by an exception in _ensure_session
    \* ---- CacheManager
    store,        \* _store: key -> (expires, value), or NoItem
    lastSet,      \* the last direct set(): its key, value, ttl and time
    lastGet,      \* the last direct get() since the last set(): its key, time and result
    \* ---- get_multiple_stock_data
    mpc,          \* "idle" | "collect" | "done"
    mList,        \* the tickers argument
    mIdx,         \* position of the collection loop in the task list
    mResults,     \* results: ticker -> APIResponse, or NoResponse
    \* ---- _generate_cache_key
    kEndpoint,    \* the endpoint argument, a string (a sequence of characters)
    kParams,      \* the params argument: its (name, value) items in insertion order
    kOther,       \* the same items in another insertion order
    kKey,         \* the key generated for kParams (<<>> before the call)
    kKeyOther,    \* the key generated for kOther (<<>> before the call)
    kEndpointOther, \* the endpoint argument of the call made with kOther
    \* ---- DatabaseManager
    dbStocks,     \* table stocks: the ticker of each row, in id order (id = index)
    dbLists,      \* table watchlists: the rows in id order
    dbItems,      \* table watchlist_items: the set of rows
    dbCalls,      \* add_to_watchlist calls made
    dbOk,         \* add_to_watchlist calls that returned True
    dbFirst       \* tickers in the order of their first successful addition to
                  \* the default watchlist

rlVars == <<clock, rate, rlLast, rlLock, rlpc, rlWake, rlHistory>>
ctlVars == <<active, progressOf, prog, ctick, opc, ret, task, mustCancel, lastReq,
             cancelSeen, nCancel, cancelRet, mutex>>
batchVars == <<bpc, maxc, sem, results>>
apiVars == <<session, scenario, broken>>
cacheVars == <<store, lastSet, lastGet>>
callVars == <<request_counter, rq, resp, nAcquire, nDispatch, nFault>>
multiVars == <<mpc, mList, mIdx, mResults>>
keyVars == <<kEndpoint, kParams, kOther, kKey, kKeyOther, kEndpointOther>>
dbVars == <<dbStocks, dbLists, dbItems, dbCalls, dbOk, dbFirst>>
reqVars == <<cacheVars, callVars, multiVars, keyVars, dbVars>>
vars == <<rlVars, ctlVars, batchVars, apiVars, reqVars>>

\* ============================================================ RateLimiter

RLCallers == 1..NumCallers
Rates == 0..MaxRate

\* __init__: min_interval = 1.0 / rate_per_second if rate_per_second > 0 else 0
MinInterval(r) == IF r > 0 THEN TicksPerSecond \div r ELSE 0

min_interval == MinInterval(rate)

\* The lock is not a lock: every caller enters at once.
LockFree_NoLock == TRUE

\* async with self._lock: the caller enters only when nobody holds the lock.
LockFree == rlLock = 0

\* wait = self.min_interval - (now - self._last)
WaitTime(now) == min_interval - (now - rlLast)

\* self._last = time.monotonic(), leaving the lock: the caller is released.
Commit(p) ==
    /\ rlLast' = clock
    /\ rlHistory' = IF rlHistory = <<>> THEN <<clock>>
                    ELSE <<rlHistory[Len(rlHistory)], clock>>
    /\ rlLock' = 0
    /\ rlpc' = [rlpc EXCEPT ![p] = "idle"]

\* The body of acquire() once the lock is held, up to its first suspension.
Enter(p) ==
    LET now == clock
        wait == WaitTime(now)
    IN  IF wait > 0
        THEN /\ rlLock' = p
             /\ rlpc' = [rlpc EXCEPT ![p] = "sleep"]
             /\ rlWake' = [rlWake EXCEPT ![p] = now + wait]
             /\ UNCHANGED <<rlLast, rlHistory>>
        ELSE /\ Commit(p)
             /\ UNCHANGED rlWake

\* A caller calls acquire(): it enters if the lock is free, else it queues.
RLAcquire(p) ==
    /\ rlpc[p] = "idle"
    /\ IF LockFree
       THEN Enter(p)
       ELSE /\ rlpc' = [rlpc EXCEPT ![p] = "wait"]
            /\ UNCHANGED <<rlLast, rlLock, rlWake, rlHistory>>
    /\ UNCHANGED <<clock, rate>>

\* A queued caller gets the lock after a release.
RLGranted(p) ==
    /\ rlpc[p] = "wait"
    /\ LockFree
    /\ Enter(p)
    /\ UNCHANGED <<clock, rate>>

\* asyncio.sleep(wait) ends, not before its time; the caller commits and leaves.
RLWakeUp(p) ==
    /\ rlpc[p] = "sleep"
    /\ clock >= rlWake[p]
    /\ Commit(p)
    /\ UNCHANGED <<clock, rate, rlWake>>

\* A cancelled caller keeps the lock it holds.
CancelRelease_Keeps(p) == rlLock

\* CancelledError leaves 'async with self._lock': the lock is released if the
\* caller holds it; a caller cancelled in the queue holds none.
CancelRelease(p) == IF rlLock = p THEN 0 ELSE rlLock

\* The caller's task is cancelled while queued or asleep: async with releases
\* the lock (if held) and _last is not written.
RLCancelled(p) ==
    /\ rlpc[p] \in {"wait", "sleep"}
    /\ rlLock' = CancelRelease(p)
    /\ rlpc' = [rlpc EXCEPT ![p] = "idle"]
    /\ UNCHANGED <<clock, rate, rlLast, rlWake, rlHistory>>

\* Time passes.
Tick ==
    /\ clock < MaxClock
    /\ clock' = clock + 1
    /\ UNCHANGED <<rate, rlLast, rlLock, rlpc, rlWake, rlHistory>>

\* A caller sleeps and its time has not come.
SleeperWaits == \E p \in RLCallers : rlpc[p] = "sleep" /\ rlWake[p] > clock

\* Time passes, and keeps passing while a caller sleeps.
TimePasses ==
    /\ clock < MaxClock \/ SleeperWaits
    /\ clock' = clock + 1
    /\ UNCHANGED <<rate, rlLast, rlLock, rlpc, rlWake, rlHistory>>

RLInitIdle ==
    /\ clock = 0
    /\ rlLast = 0
    /\ rlLock = 0
    /\ rlpc = [p \in RLCallers |-> "idle"]
    /\ rlWake = [p \in RLCallers |-> 0]
    /\ rlHistory = <<>>


\* ========================================================= MainController

Tickers == 1..NumTickers
\* The watchlist read by batch_analyze_watchlist: every ticker, in position order.
BatchCalls == 1..NumTickers
DirectCalls == (NumTickers + 1)..(NumTickers + MaxDirect)
Calls == BatchCalls \cup DirectCalls

\* Names and percentages of the six steps (_perform_ticker_analysis); the
\* percentage in tenths of a percent.
StepName(k) ==
    CASE k = 1 -> "Fetching stock information"
      [] k = 2 -> "Fetching earnings data"
      [] k = 3 -> "Fetching options flow"
      [] k = 4 -> "Fetching insider trades"
      [] k = 5 -> "Performing analysis"
      [] k = 6 -> "Saving results"

StepPercent(k) ==
    CASE k = 1 -> 167
      [] k = 2 -> 333
      [] k = 3 -> 500
      [] k = 4 -> 667
      [] k = 5 -> 833
      [] k = 6 -> 1000

\* A record that no run has created yet.
NoProgress ==
    [status |-> "idle", current_step |-> "", progress_percent |-> 0,
     total_steps |-> 6, completed_steps |-> 0, error_message |-> FALSE]

\* analyze_ticker: progress = AnalysisProgress(status=RUNNING, ...)
NewProgress ==
    [status |-> "running", current_step |-> "Initializing analysis",
     progress_percent |-> 0, total_steps |-> 6, completed_steps |-> 0,
     error_message |-> FALSE]

\* A task: its position, the step it is in, and its local variable
\* 'progress': the call whose AnalysisProgress object it refers to (0 before
\* line 318).
NoTask == [pc |-> "none", k |-> 0, pref |-> 0]
TaskAt(pc, k) == [pc |-> pc, k |-> k, pref |-> 0]

\* The task of call c at another position, with its local variable.
Move(c, pc, k) == [task[c] EXCEPT !.pc = pc, !.k = k]

\* progress = self._analysis_progress[ticker]
ProgressRef(c) == progressOf[ctick[c]]

\* Every fetch is mandatory.
Mandatory_All(k) == TRUE

\* No fetch is mandatory.
Mandatory_None(k) == FALSE

\* The fetch whose failure raises ApplicationError: stock info (step 1).
Mandatory(k) == k = 1

\* The task has finished: result, exception or cancellation (Task.done()).
Finished == {"ok", "exc", "cancelled"}
TaskDone(c) == task[c].pc \in Finished
\* The task exists and has not finished.
TaskLive(c) == task[c].pc \notin (Finished \cup {"none"})
\* Requests dispatched on the session and not yet answered.
InFlight == {c \in Calls : task[c].pc = "fly"}

\* The task runs on although task.cancel() was requested.
Runnable_IgnoreCancel(c) == TRUE

\* A task's next step runs its coroutine on only if no cancellation is pending;
\* otherwise CancelledError is thrown in at the await (TaskCancelled).
Runnable(c) == ~mustCancel[c]

\* The check is missing: a second run is started.
AlreadyRunning_Never(t) == FALSE

\* Only a run whose task has started counts as running.
AlreadyRunning_OnlyIfStarted(t) == active[t] # 0 /\ task[active[t]].pc # "ready"

\* if ticker in self._active_analyses
AlreadyRunning(t) == active[t] # 0

\* The entry is left behind.
Cleanup_Skip(t) == active

\* finally: if ticker in self._active_analyses: del self._active_analyses[ticker]
Cleanup(t) == [active EXCEPT ![t] = 0]

\* No except asyncio.CancelledError clause: a cancellation is reported as an error.
FinalProgress_CancelIsError(p, outcome) ==
    CASE outcome = "ok" ->
           [p EXCEPT !.status = "completed", !.progress_percent = 1000,
                     !.completed_steps = p.total_steps,
                     !.current_step = "Analysis completed"]
      [] OTHER ->
           [p EXCEPT !.status = "error", !.error_message = TRUE,
                     !.current_step = "Analysis failed"]

\* analyze_ticker after 'await task': the final progress for the task's outcome.
FinalProgress(p, outcome) ==
    CASE outcome = "ok" ->
           [p EXCEPT !.status = "completed", !.progress_percent = 1000,
                     !.completed_steps = p.total_steps,
                     !.current_step = "Analysis completed"]
      [] outcome = "cancelled" ->
           [p EXCEPT !.status = "cancelled", !.current_step = "Analysis cancelled"]
      [] outcome = "exc" ->
           [p EXCEPT !.status = "error", !.error_message = TRUE,
                     !.current_step = "Analysis failed"]

\* analyze_ticker's return value for the task's outcome.
FinalReturn(outcome) == IF outcome = "ok" THEN "True" ELSE "False"

\* The semaphore admits everyone.
SemaphoreFree_Always == TRUE

\* async with semaphore: a wrapper enters only while the value is positive.
SemaphoreFree == sem > 0

\* cancel_analysis answers True whatever the registry holds.
CancelReturn_Always(t) == TRUE

\* cancel_analysis: True if the ticker is registered, else False.
CancelReturn(t) == active[t] # 0

\* ---- UnusualWhalesAPIService: the shared session

\* _ensure_session leaves the session as it finds it.
EnsureSession_Keeps == session' = session

\* _ensure_session: a new session if there is none or it is closed.
EnsureSession == session' = "open"

\* __aexit__ -> close(): closes the session if it is open; every request still
\* in flight on it now runs on a closed session.
CloseSession(c) ==
    /\ session' = IF session = "open" THEN "closed" ELSE session
    /\ broken' = IF session = "open" THEN (broken \cup InFlight) \ {c}
                 ELSE broken \ {c}

\* close() awaits session.close() only for an open session; that await may or
\* may not really suspend.
CloseMaySuspend == IF session = "open" THEN {TRUE, FALSE} ELSE {FALSE}

\* ---- analyze_ticker

\* The progress record is installed before the registry is looked at.
RejectedMap_Installs(c, t) == [progressOf EXCEPT ![t] = c]

\* _analysis_progress after a rejected call: the return at line 256 comes
\* before the record is created.
RejectedMap(c, t) == progressOf

\* analyze_ticker up to 'await task' (or to the early return).
StartBody(c, t) ==
    /\ ctick' = [ctick EXCEPT ![c] = t]
    /\ IF AlreadyRunning(t)
       THEN /\ opc' = [opc EXCEPT ![c] = "done"]
            /\ ret' = [ret EXCEPT ![c] = "False"]
            /\ progressOf' = RejectedMap(c, t)
            /\ UNCHANGED <<active, prog, task>>
       ELSE /\ prog' = [prog EXCEPT ![c] = NewProgress]
            /\ progressOf' = [progressOf EXCEPT ![t] = c]
            /\ task' = [task EXCEPT ![c] = TaskAt("ready", 0)]
            /\ active' = [active EXCEPT ![t] = c]
            /\ opc' = [opc EXCEPT ![c] = "await"]
            /\ UNCHANGED ret
    /\ UNCHANGED <<mustCancel, lastReq, cancelSeen, nCancel, cancelRet>>

\* Tickers are interchangeable: a call names ticker t only when ticker t - 1
\* has been named before, and call c is made only after call c - 1.
Canonical(c, t) ==
    /\ \A d \in DirectCalls : d < c => opc[d] # "idle"
    /\ t > 1 => \E d \in DirectCalls : ctick[d] = t - 1

\* A caller outside the batch (add_to_watchlist, the UI) calls analyze_ticker(t).
AnalyzeTicker(c, t) ==
    /\ c \in DirectCalls
    /\ opc[c] = "idle"
    /\ Canonical(c, t)
    /\ StartBody(c, t)
    /\ UNCHANGED <<mutex, reqVars, rlVars, batchVars, apiVars>>

\* The wrapper tasks were created in watchlist order and the semaphore wakes
\* its waiters first come, first served: a wrapper gets its turn only after
\* every wrapper before it.
Turn(c) == \A d \in BatchCalls : d < c => opc[d] # "sem"

\* analyze_with_semaphore(ticker): admitted by the semaphore, it runs
\* analyze_ticker up to 'await task'; a rejected start returns at once and
\* frees the slot again.
WrapperEnter(c) ==
    /\ c \in BatchCalls
    /\ opc[c] = "sem"
    /\ Turn(c)
    /\ SemaphoreFree
    /\ StartBody(c, c)
    /\ sem' = IF AlreadyRunning(c) THEN sem ELSE sem - 1
    /\ UNCHANGED <<mutex, reqVars, rlVars, bpc, maxc, results, apiVars>>

\* analyze_ticker raises before its try block (lines 251-269 are not guarded):
\* the wrapper task ends with an unexpected exception, leaving the semaphore.
WrapperFault(c) ==
    /\ c \in BatchCalls
    /\ opc[c] = "sem"
    /\ Turn(c)
    /\ SemaphoreFree
    /\ opc' = [opc EXCEPT ![c] = "raised"]
    /\ UNCHANGED <<active, progressOf, prog, ctick, ret, task, mustCancel, lastReq,
                   cancelSeen, nCancel, cancelRet>>
    /\ UNCHANGED <<mutex, reqVars, rlVars, batchVars, apiVars>>

\* The slot of a cancelled run is kept.
Release_NotAfterCancel(c) ==
    IF c \in BatchCalls /\ task[c].pc # "cancelled" THEN sem + 1 ELSE sem

\* Leaving 'async with semaphore': the wrapper of a batch call gives its slot
\* back however analyze_ticker ended; a direct call holds none.
Release(c) == IF c \in BatchCalls THEN sem + 1 ELSE sem

\* analyze_ticker resumes after 'await task': final progress, return value,
\* the finally clause; a batch wrapper then leaves the semaphore. The task
\* object and its request go out of scope with the call.
AnalyzeResume(c) ==
    /\ opc[c] = "await"
    /\ TaskDone(c)
    /\ prog' = [prog EXCEPT ![c] = FinalProgress(prog[c], task[c].pc)]
    /\ ret' = [ret EXCEPT ![c] = FinalReturn(task[c].pc)]
    /\ active' = Cleanup(ctick[c])
    /\ opc' = [opc EXCEPT ![c] = "done"]
    /\ sem' = Release(c)
    /\ task' = [task EXCEPT ![c] = NoTask]
    /\ lastReq' = [lastReq EXCEPT ![c] = "none"]
    /\ UNCHANGED <<progressOf, ctick, mustCancel, cancelSeen, nCancel, cancelRet>>
    /\ UNCHANGED <<mutex, reqVars, rlVars, bpc, maxc, results, apiVars>>

\* cancel_analysis(ticker): task.cancel() on the registered task; cancel() has
\* no effect on a task that is already done, and its answer is not looked at.
CancelAnalysis(t) ==
    /\ nCancel < MaxCancel
    /\ nCancel' = nCancel + 1
    /\ cancelRet' = IF CancelReturn(t) THEN "True" ELSE "False"
    /\ IF active[t] # 0
       THEN LET c == active[t] IN
            /\ mustCancel' = [mustCancel EXCEPT ![c] = ~TaskDone(c)]
            /\ cancelSeen' = [cancelSeen EXCEPT ![c] =
                                 IF ~TaskDone(c) THEN "live"
                                 ELSE IF @ = "no" THEN "late" ELSE @]
       ELSE UNCHANGED <<mustCancel, cancelSeen>>
    /\ UNCHANGED <<active, progressOf, prog, ctick, opc, ret, task, lastReq>>
    /\ UNCHANGED <<mutex, reqVars, rlVars, batchVars, apiVars>>


\* ---- _perform_ticker_analysis (the task of one run)

\* The steps are counted down from total_steps.
StepProgress_CountsDown(p, k) ==
    [p EXCEPT !.current_step = StepName(k), !.completed_steps = p.total_steps - k,
              !.progress_percent = StepPercent(k)]

\* progress.current_step / completed_steps / progress_percent at the start of step k.
StepProgress(p, k) ==
    [p EXCEPT !.current_step = StepName(k), !.completed_steps = k,
              !.progress_percent = StepPercent(k)]

\* What the upstream answers to the request of step k for ticker t: a success
\* or a failure of any kind (status, timeout).
Upstream(t, k) ==
    IF scenario = 0 THEN {"ok", "fail"}
    ELSE IF scenario = t /\ k = 1 THEN {"fail"} ELSE {"ok"}

\* Whether analysis_service.analyze_ticker may raise.
AnalysisOutcomes == IF scenario = 0 THEN {TRUE, FALSE} ELSE {TRUE}

\* Outcomes of a request in flight: the upstream's answer or, on a session that
\* was closed under the request, a connection failure due to the close.
Outcomes(c) ==
    Upstream(ctick[c], task[c].k) \cup (IF c \in broken THEN {"closed"} ELSE {})

\* The task's first step: 'async with api_service' opens the session, step 1
\* starts, get_stock_info -> _make_request reaches rate_limiter.acquire(),
\* which suspends (acq) or lets the request be dispatched at once (fly).
TaskStart(c) ==
    /\ task[c].pc = "ready"
    /\ Runnable(c)
    /\ EnsureSession
    /\ prog' = [prog EXCEPT ![ProgressRef(c)] = StepProgress(@, 1)]
    /\ \E thru \in BOOLEAN :
         /\ task' = [task EXCEPT ![c] = [TaskAt(IF thru THEN "fly" ELSE "acq", 1)
                                          EXCEPT !.pref = ProgressRef(c)]]
         /\ lastReq' = [lastReq EXCEPT ![c] = IF thru THEN "inflight" ELSE @]
    /\ UNCHANGED <<active, progressOf, ctick, opc, ret, mustCancel, cancelSeen, nCancel, cancelRet>>
    /\ UNCHANGED <<mutex, reqVars, rlVars, batchVars, scenario, broken>>

\* _make_request after rate_limiter.acquire(): _ensure_session, then the
\* request is dispatched on the session.
Dispatch(c) ==
    /\ task[c].pc = "acq"
    /\ Runnable(c)
    /\ EnsureSession
    /\ task' = [task EXCEPT ![c] = Move(c, "fly", @.k)]
    /\ lastReq' = [lastReq EXCEPT ![c] = "inflight"]
    /\ UNCHANGED <<active, progressOf, prog, ctick, opc, ret, mustCancel, cancelSeen, nCancel, cancelRet>>
    /\ UNCHANGED <<mutex, reqVars, rlVars, batchVars, scenario, broken>>

\* The request of step k is answered. A failed stock-info fetch (k = 1) raises
\* ApplicationError, which leaves the api_service context and closes the
\* session; a failed optional fetch is passed on; otherwise the next step
\* starts: the next request (k < 4) or the analysis (k = 4).
Response(c) ==
    /\ task[c].pc = "fly"
    /\ Runnable(c)
    /\ \E out \in Outcomes(c) :
         LET k == task[c].k
             fate == IF out = "ok" THEN "completed" ELSE "failed" IN
         /\ IF Mandatory(k) /\ out # "ok"
            THEN /\ CloseSession(c)
                 /\ \E susp \in CloseMaySuspend :
                      task' = [task EXCEPT ![c] =
                                  Move(c, IF susp THEN "closeE" ELSE "exc", 0)]
                 /\ lastReq' = [lastReq EXCEPT ![c] = fate]
                 /\ UNCHANGED prog
            ELSE /\ prog' = [prog EXCEPT ![task[c].pref] = StepProgress(@, k + 1)]
                 /\ broken' = broken \ {c}
                 /\ IF k < 4
                    THEN \E thru \in BOOLEAN :
                           /\ task' = [task EXCEPT ![c] =
                                          Move(c, IF thru THEN "fly" ELSE "acq", k + 1)]
                           /\ lastReq' = [lastReq EXCEPT ![c] =
                                             IF thru THEN "inflight" ELSE fate]
                           /\ session' = IF thru THEN "open" ELSE session
                    ELSE /\ task' = [task EXCEPT ![c] = Move(c, "ana", 5)]
                         /\ lastReq' = [lastReq EXCEPT ![c] = fate]
                         /\ UNCHANGED session
    /\ UNCHANGED <<active, progressOf, ctick, opc, ret, mustCancel, cancelSeen,
                   nCancel, cancelRet>>
    /\ UNCHANGED <<mutex, reqVars, rlVars, batchVars, scenario>>

\* analysis_service.analyze_ticker returns (step 6, results emitted, return
\* True) or raises; either way the api_service context is left.
AnalysisDone(c) ==
    /\ task[c].pc = "ana"
    /\ Runnable(c)
    /\ CloseSession(c)
    /\ \E good \in AnalysisOutcomes, susp \in CloseMaySuspend :
         /\ prog' = [prog EXCEPT ![task[c].pref] = IF good THEN StepProgress(@, 6) ELSE @]
         /\ task' = [task EXCEPT ![c] =
                        Move(c, IF good THEN (IF susp THEN "closeT" ELSE "ok")
                                ELSE (IF susp THEN "closeE" ELSE "exc"), 0)]
    /\ UNCHANGED <<active, progressOf, ctick, opc, ret, mustCancel, lastReq,
                   cancelSeen, nCancel, cancelRet>>
    /\ UNCHANGED <<mutex, reqVars, rlVars, batchVars, scenario>>

\* The task's outcome once __aexit__ is through, by what was pending there.
AfterClose(pc) ==
    CASE pc = "closeT" -> "ok"
      [] pc = "closeE" -> "exc"
      [] pc = "closeC" -> "cancelled"

\* close() finishes: the task ends with what was pending.
CloseDone(c) ==
    /\ task[c].pc \in {"closeT", "closeE", "closeC"}
    /\ Runnable(c)
    /\ task' = [task EXCEPT ![c] = Move(c, AfterClose(@.pc), 0)]
    /\ UNCHANGED <<active, progressOf, prog, ctick, opc, ret, mustCancel, lastReq,
                   cancelSeen, nCancel, cancelRet>>
    /\ UNCHANGED <<mutex, reqVars, rlVars, batchVars, apiVars>>

\* The task's next step after task.cancel(): CancelledError is raised at the
\* await the task is suspended in (a task not yet started never runs). Raised in
\* a step, it aborts the request in flight and leaves the api_service context;
\* raised in close(), it ends the task.
TaskCancelled(c) ==
    /\ mustCancel[c]
    /\ TaskLive(c)
    /\ mustCancel' = [mustCancel EXCEPT ![c] = FALSE]
    /\ IF task[c].pc \in {"acq", "fly", "ana"}
       THEN /\ CloseSession(c)
            /\ \E susp \in CloseMaySuspend :
                 task' = [task EXCEPT ![c] =
                             TaskAt(IF susp THEN "closeC" ELSE "cancelled", 0)]
            /\ lastReq' = [lastReq EXCEPT ![c] =
                              IF task[c].pc = "fly" THEN "aborted" ELSE @]
       ELSE /\ task' = [task EXCEPT ![c] = TaskAt("cancelled", 0)]
            /\ UNCHANGED <<lastReq, session, broken>>
    /\ UNCHANGED <<active, progressOf, prog, ctick, opc, ret, cancelSeen,
                   nCancel, cancelRet>>
    /\ UNCHANGED <<mutex, reqVars, rlVars, batchVars, scenario>>

\* ---- batch_analyze_watchlist

\* The batch starts: the semaphore, one wrapper task per ticker, gather.
BatchStart ==
    /\ bpc = "idle"
    /\ bpc' = "gather"
    /\ sem' = maxc
    /\ opc' = [c \in Calls |-> IF c \in BatchCalls THEN "sem" ELSE opc[c]]
    /\ ctick' = [c \in Calls |-> IF c \in BatchCalls THEN c ELSE ctick[c]]
    /\ UNCHANGED <<active, progressOf, prog, ret, task, mustCancel, lastReq,
                   cancelSeen, nCancel, cancelRet>>
    /\ UNCHANGED <<mutex, reqVars, rlVars, maxc, results, apiVars>>

\* results of gather(return_exceptions=True): an exception is logged and
\* skipped, a (ticker, success) pair is entered in the map.
BatchResults ==
    [t \in Tickers |-> IF opc[t] = "raised" THEN "absent" ELSE ret[t]]

\* Every wrapper task has ended: the batch returns its map.
BatchFinish ==
    /\ bpc = "gather"
    /\ \A c \in BatchCalls : opc[c] \in {"done", "raised"}
    /\ results' = BatchResults
    /\ bpc' = "done"
    /\ UNCHANGED <<mutex, reqVars, rlVars, ctlVars, maxc, sem, apiVars>>

\* ------------------------------------------------------------ CacheManager
\* utils/cache.py.  Time is time.time(), read from the simulated clock.

\* Cache keys: one per distinct (endpoint, params) of a request.
Keys == 1..NumTickers

\* Values a caller can store: two non-empty JSON documents, an empty object or
\* list, and JSON null (Python's None).
Payloads == {"P1", "P2", "Empty", "None"}

\* Python truthiness of a value ('if cached_response', 'response_data.data').
Truthy(v) == v \notin {"Empty", "None"}

\* The ttl values callers pass.
Ttls == 0..MaxTtl

\* _store.get(key) when the key is not in the dictionary.
NoItem == [present |-> FALSE, expires |-> 0, value |-> "None"]

\* The tuple (expires, value) stored under a key.
Item(e, v) == [present |-> TRUE, expires |-> e, value |-> v]

\* get(): an entry is expired when 'expires < time.time()'.
Expired(item, now) == item.expires < now

\* get(): the value returned (None for a missing or expired entry).
CacheGetValue(k, now) ==
    IF ~store[k].present THEN "None"
    ELSE IF Expired(store[k], now) THEN "None"
    ELSE store[k].value

\* get() leaves an expired entry where it is.
CacheGetStore_KeepsExpired(k, now) == store

\* get(): the store afterwards (an expired entry is popped).
CacheGetStore(k, now) ==
    IF store[k].present /\ Expired(store[k], now)
    THEN [store EXCEPT ![k] = NoItem]
    ELSE store

\* set(): the store afterwards.
CacheSetStore(k, v, ttl, now) == [store EXCEPT ![k] = Item(now + ttl, v)]

NoSet == [key |-> 0, value |-> "None", ttl |-> 0, at |-> 0]
NoGet == [key |-> 0, at |-> 0, value |-> "None"]

\* A direct call of CacheManager.set(k, v, ttl).
CacheSet(k, v, ttl) ==
    /\ store' = CacheSetStore(k, v, ttl, clock)
    /\ lastSet' = [key |-> k, value |-> v, ttl |-> ttl, at |-> clock]
    /\ lastGet' = NoGet
    /\ UNCHANGED <<dbVars, keyVars, rlVars, ctlVars, batchVars, apiVars, callVars, multiVars>>

\* A direct call of CacheManager.get(k).
CacheGet(k) ==
    /\ lastGet' = [key |-> k, at |-> clock, value |-> CacheGetValue(k, clock)]
    /\ store' = CacheGetStore(k, clock)
    /\ UNCHANGED lastSet
    /\ UNCHANGED <<dbVars, keyVars, rlVars, ctlVars, batchVars, apiVars, callVars, multiVars>>

CacheInitEmpty ==
    /\ store = [k \in Keys |-> NoItem]
    /\ lastSet = NoSet
    /\ lastGet = NoGet

\* ------------------------------------------- UnusualWhalesAPIService requests
\* services/api_service.py: _make_request and _process_response.

\* HTTP methods callers pass, in the spellings they use.
Methods == {"GET", "get", "POST"}

\* method.upper()
Upper(m) == IF m = "get" THEN "GET" ELSE m

\* The cache_ttl argument: a number of ticks, or None, written -1.
TtlArgs == {-1} \cup Ttls

\* HTTP statuses the upstream answers with.
Statuses == {200, 401, 429, 500}

\* Bodies of a 200 answer: a JSON document (see Payloads), text that is no
\* JSON, bytes that do not decode in the declared charset, and a document
\* sent with a content type other than application/json.
Bodies == Payloads \cup {"badjson", "undecodable", "wrongtype"}

\* Exceptions session.request() raises.
DispatchErrors == {"TimeoutError", "ServerTimeoutError", "ClientError", "RuntimeError"}

\* The classes an exception is an instance of (aiohttp's ServerTimeoutError
\* derives from both ServerConnectionError and asyncio.TimeoutError).
ExcBases(e) ==
    CASE e = "TimeoutError" -> {"TimeoutError", "Exception"}
      [] e = "ServerTimeoutError" -> {"TimeoutError", "ClientError", "Exception"}
      [] e = "ClientError" -> {"ClientError", "Exception"}
      [] e = "ContentTypeError" -> {"ClientError", "Exception"}
      [] e = "JSONDecodeError" -> {"JSONDecodeError", "ValueError", "Exception"}
      [] e = "UnicodeDecodeError" -> {"ValueError", "Exception"}
      [] OTHER -> {"Exception"}

\* What the upstream does with a dispatched request.
UpstreamOutcomes ==
    [kind : {"http"}, status : {200}, body : Bodies, exc : {"None"}]
    \cup [kind : {"http"}, status : Statuses \ {200}, body : {"text"}, exc : {"None"}]
    \cup [kind : {"http"}, status : Statuses \ {200, 401, 429}, body : {"undecodable"},
          exc : {"None"}]
    \cup [kind : {"raise"}, status : {0}, body : {"None"}, exc : DispatchErrors]

NoOutcome == [kind |-> "none", status |-> 0, body |-> "None", exc |-> "None"]

\* APIResponse (request_id is left out; status_code 0 is None; error is the
\* list of the parts the message is formatted from).
APIResponse(success, data, error, error_type, status_code, cached) ==
    [success |-> success, data |-> data, error |-> error, error_type |-> error_type,
     status_code |-> status_code, cached |-> cached]

NoResponse == APIResponse(FALSE, "None", <<>>, "None", 0, FALSE)

\* A value returned, or an exception raised, by a call.
Returned(r) == [raised |-> "None", value |-> r]
Raised(e) == [raised |-> e, value |-> NoResponse]

\* response.json(): the document, or the exception it raises.
ResponseJson(body) ==
    CASE body = "badjson" -> Raised("JSONDecodeError")
      [] body = "undecodable" -> Raised("UnicodeDecodeError")
      [] body = "wrongtype" -> Raised("ContentTypeError")
      [] OTHER -> [raised |-> "None", value |-> body]

\* response.text(): the text, or the exception it raises.
ResponseText(body) ==
    IF body = "undecodable" THEN Raised("UnicodeDecodeError")
    ELSE [raised |-> "None", value |-> body]

\* _process_response(response, request_id)
ProcessResponse(status, body) ==
    IF status = 200
    THEN LET j == ResponseJson(body) IN
         IF j.raised = "None"
         THEN Returned(APIResponse(TRUE, j.value, <<>>, "None", status, FALSE))
         ELSE IF "JSONDecodeError" \in ExcBases(j.raised)
         THEN Returned(APIResponse(FALSE, "None", <<"Invalid JSON response">>,
                                   "DATA_ERROR", status, FALSE))
         ELSE Raised(j.raised)
    ELSE IF status = 401
    THEN Returned(APIResponse(FALSE, "None", <<"Authentication failed - check API token">>,
                              "AUTHENTICATION_ERROR", status, FALSE))
    ELSE IF status = 429
    THEN Returned(APIResponse(FALSE, "None", <<"Rate limit exceeded">>,
                              "RATE_LIMIT_ERROR", status, FALSE))
    ELSE LET t == ResponseText(body) IN
         IF t.raised = "None"
         THEN Returned(APIResponse(FALSE, "None", <<"API error", status, t.value>>,
                                   "DATA_ERROR", status, FALSE))
         ELSE Raised(t.raised)

\* The except clauses of _make_request, tried in the order TimeoutError,
\* ClientError, Exception, with the clauses in a wrong order as a variant.
ErrorType_ClientErrorFirst(e) ==
    IF "ClientError" \in ExcBases(e) THEN "NETWORK_ERROR"
    ELSE IF "TimeoutError" \in ExcBases(e) THEN "TIMEOUT_ERROR"
    ELSE "UNKNOWN_ERROR"

\* The except clauses of _make_request, in the code's order.
ErrorType(e) ==
    IF "TimeoutError" \in ExcBases(e) THEN "TIMEOUT_ERROR"
    ELSE IF "ClientError" \in ExcBases(e) THEN "NETWORK_ERROR"
    ELSE "UNKNOWN_ERROR"

\* The APIResponse an except clause of _make_request builds.
ErrorResponse(e) ==
    APIResponse(FALSE, "None",
                CASE ErrorType(e) = "TIMEOUT_ERROR" -> <<"Request timeout">>
                  [] ErrorType(e) = "NETWORK_ERROR" -> <<"Network error", e>>
                  [] OTHER -> <<"Unexpected error", e>>,
                ErrorType(e), 0, FALSE)

\* What the try block of _make_request evaluates to for an upstream outcome.
TryResult(o) ==
    IF o.kind = "raise" THEN ErrorResponse(o.exc)
    ELSE LET p == ProcessResponse(o.status, o.body) IN
         IF p.raised = "None" THEN p.value ELSE ErrorResponse(p.raised)

\* The state of a caller's _make_request call: its position, its arguments,
\* the number in its request_id, and what it has done (acquire() calls, dispatches, cache writes, expired
\* entries its lookup removed, and the upstream's answer).
Call(pc, m, k, bypass, ttl) ==
    [pc |-> pc, method |-> m, key |-> k, bypass |-> bypass, ttl |-> ttl,
     id |-> 0, acq |-> 0, disp |-> 0, wrote |-> 0, evicted |-> 0, up |-> NoOutcome]

NoCall == Call("idle", "GET", 0, FALSE, -1)

\* 'method.upper() == "GET" and not bypass_cache'
Cacheable(m, bypass) == Upper(m) = "GET" /\ ~bypass

\* 'if cached_response:', and a variant that never takes the cached value.
CacheHit_Never(cached) == FALSE

\* 'if cached_response:'
CacheHit(cached) == Truthy(cached)

\* The rate_limiter.acquire() calls of one _make_request call: the call
\* sits after the return of the cache hit.  The variant acquires first.
AcquireCalls_BeforeCache(hit) == 1

\* The rate_limiter.acquire() calls of one _make_request call.
AcquireCalls(hit) == IF hit THEN 0 ELSE 1

\* Every answer to a cacheable request is stored, successful or not.
StoreIt_AnyOutcome(m, bypass, r) == Cacheable(m, bypass)

\* 'method.upper() == "GET" and response_data.success and response_data.data
\*  and not bypass_cache'
StoreIt(m, bypass, r) ==
    Upper(m) = "GET" /\ r.success /\ Truthy(r.data) /\ ~bypass

\* 'ttl = cache_ttl or config.cache.default_ttl'
EffectiveTtl(t) == IF t = -1 \/ t = 0 THEN DefaultTtl ELSE t

\* The APIResponse of a cache hit.
CachedResponse(cached) == APIResponse(TRUE, cached, <<>>, "None", 0, TRUE)

\* The counter is left as it is.
Counted_Same(n) == n

\* 'self._request_counter += 1'
Counted(n) == n + 1

\* _make_request up to its first suspension: the counter, the cache lookup,
\* and on a miss the call of rate_limiter.acquire().
MakeRequest(c, m, k, bypass, ttl) ==
    /\ rq[c].pc = "idle"
    /\ request_counter < MaxCalls
    /\ request_counter' = Counted(request_counter)
    /\ LET cached == IF Cacheable(m, bypass) THEN CacheGetValue(k, clock) ELSE "None" IN
       /\ store' = IF Cacheable(m, bypass) THEN CacheGetStore(k, clock) ELSE store
       /\ IF Cacheable(m, bypass) /\ CacheHit(cached)
          THEN /\ resp' = [resp EXCEPT ![c] = CachedResponse(cached)]
               /\ rq' = [rq EXCEPT ![c] = [Call("done", m, k, bypass, ttl)
                                             EXCEPT !.acq = AcquireCalls(TRUE),
                                                    !.id = request_counter']]
               /\ nAcquire' = nAcquire + AcquireCalls(TRUE)
          ELSE /\ rq' = [rq EXCEPT ![c] = [Call("acq", m, k, bypass, ttl)
                                             EXCEPT !.acq = AcquireCalls(FALSE),
                                                    !.id = request_counter',
                                                    !.evicted = IF store' # store
                                                                THEN 1 ELSE 0]]
               /\ resp' = [resp EXCEPT ![c] = NoResponse]
               /\ nAcquire' = nAcquire + AcquireCalls(FALSE)
    /\ UNCHANGED <<nDispatch, nFault, lastSet, lastGet, multiVars>>
    /\ UNCHANGED <<dbVars, keyVars, rlVars, ctlVars, batchVars, apiVars>>

\* The arguments callers pass: bypass_cache and cache_ttl only where the
\* call reads them, and the lower-case spelling with the default arguments.
RequestArgs ==
    {a \in [method : Methods, key : Keys, bypass : BOOLEAN, ttl : TtlArgs] :
        /\ Upper(a.method) # "GET" => ~a.bypass
        /\ ~Cacheable(a.method, a.bypass) => a.ttl = -1
        /\ a.method = "get" => ~a.bypass /\ a.ttl = -1}

\* acquire() has returned and _ensure_session() creates the session: the
\* construction of the connector or of the session raises.
SessionFault(c) ==
    /\ rq[c].pc = "acq"
    /\ session # "open"
    /\ rq' = [rq EXCEPT ![c].pc = "raised", ![c].up.exc = "RuntimeError"]
    /\ nFault' = nFault + 1
    /\ UNCHANGED <<request_counter, resp, nAcquire, nDispatch, cacheVars, multiVars>>
    /\ UNCHANGED <<dbVars, keyVars, rlVars, ctlVars, batchVars, apiVars>>

\* acquire() has returned: _ensure_session(), then session.request() is
\* entered (no suspension in between).
DispatchRequest(c) ==
    /\ rq[c].pc = "acq"
    /\ EnsureSession
    /\ rq' = [rq EXCEPT ![c].pc = "fly", ![c].disp = 1]
    /\ nDispatch' = nDispatch + 1
    /\ UNCHANGED <<request_counter, resp, nAcquire, nFault, cacheVars, multiVars>>
    /\ UNCHANGED <<dbVars, keyVars, rlVars, ctlVars, batchVars, scenario, broken>>

\* The upstream answers (or the transport fails): the try block runs to its
\* return, with the cache write.
Respond(c, o) ==
    /\ rq[c].pc = "fly"
    /\ LET r == TryResult(o)
           write == StoreIt(rq[c].method, rq[c].bypass, r) IN
       /\ store' = IF write
                   THEN CacheSetStore(rq[c].key, r.data, EffectiveTtl(rq[c].ttl), clock)
                   ELSE store
       /\ rq' = [rq EXCEPT ![c].pc = "done", ![c].up = o,
                           ![c].wrote = IF write THEN 1 ELSE 0]
       /\ resp' = [resp EXCEPT ![c] = r]
    /\ UNCHANGED <<request_counter, nAcquire, nDispatch, nFault, lastSet, lastGet, multiVars>>
    /\ UNCHANGED <<dbVars, keyVars, rlVars, ctlVars, batchVars, apiVars>>

\* The caller has taken the result (or the exception) of its call.
CallerResumes(c) ==
    /\ rq[c].pc \in {"done", "raised"}
    /\ rq' = [rq EXCEPT ![c] = NoCall]
    /\ resp' = [resp EXCEPT ![c] = NoResponse]
    /\ UNCHANGED <<request_counter, nAcquire, nDispatch, nFault, cacheVars, multiVars>>
    /\ UNCHANGED <<dbVars, keyVars, rlVars, ctlVars, batchVars, apiVars>>

\* No caller holds a result it has not taken yet.
ResultsTaken == \A c \in RLCallers : rq[c].pc \notin {"done", "raised"}

\* Caller c is the first of the idle callers.
FirstIdle(c) == \A d \in RLCallers : d < c => rq[d].pc # "idle"

CallInitIdle ==
    /\ request_counter = 0
    /\ rq = [c \in RLCallers |-> NoCall]
    /\ resp = [c \in RLCallers |-> NoResponse]
    /\ nAcquire = 0
    /\ nDispatch = 0
    /\ nFault = 0

\* ------------------------------------------------------ _generate_cache_key
\* services/api_service.py, lines 256-263.  A string is the sequence of its
\* characters; a parameter map is the sequence of its (name, value) items in
\* insertion order, with distinct names.

\* The characters strings are made of, with their code points.
Code == [ch \in {"/", "1", "2", "=", "a", "b", "c", "|"} |->
            CASE ch = "/" -> 47 [] ch = "1" -> 49 [] ch = "2" -> 50 [] ch = "=" -> 61
              [] ch = "a" -> 97 [] ch = "b" -> 98 [] ch = "c" -> 99 [] ch = "|" -> 124]

\* Endpoints, parameter names and parameter values of the requests made.
Endpoints == {<<"/", "a">>, <<"/", "b">>}
ParamNames == {<<"a">>, <<"b">>, <<"c">>, <<"a", "b">>}
ParamValues == {<<"1">>, <<"2">>, <<"1", "2">>, <<"1", "|", "c", "=", "2">>}

\* Python's order on strings: by code point, a proper prefix first.
RECURSIVE StrLess(_, _)
StrLess(x, y) ==
    IF Len(y) = 0 THEN FALSE
    ELSE IF Len(x) = 0 THEN TRUE
    ELSE IF Code[Head(x)] # Code[Head(y)] THEN Code[Head(x)] < Code[Head(y)]
    ELSE StrLess(Tail(x), Tail(y))

\* Python's order on the (name, value) tuples.
ItemLess(i, j) ==
    IF i[1] # j[1] THEN StrLess(i[1], j[1]) ELSE StrLess(i[2], j[2])

\* One item put at its place in a sorted list.
RECURSIVE Insert(_, _)
Insert(item, sorted) ==
    IF Len(sorted) = 0 THEN <<item>>
    ELSE IF ItemLess(item, Head(sorted)) THEN <<item>> \o sorted
    ELSE <<Head(sorted)>> \o Insert(item, Tail(sorted))

\* The items are taken in insertion order.
SortedItems_Unsorted(items) == items

\* sorted(params.items())
RECURSIVE SortedItems(_)
SortedItems(items) ==
    IF Len(items) = 0 THEN <<>>
    ELSE Insert(Head(items), SortedItems(Tail(items)))

\* f"{k}={v}"
KeyPart(item) == item[1] \o <<"=">> \o item[2]

\* "|".join(key_parts)
RECURSIVE JoinParts(_)
JoinParts(parts) ==
    IF Len(parts) = 0 THEN <<>>
    ELSE IF Len(parts) = 1 THEN Head(parts)
    ELSE Head(parts) \o <<"|">> \o JoinParts(Tail(parts))

\* _generate_cache_key(endpoint, params); an empty map is falsy.
GenerateCacheKey(endpoint, items) ==
    LET sorted == SortedItems(items) IN
    JoinParts(<<endpoint>> \o [i \in 1..Len(sorted) |-> KeyPart(sorted[i])])

\* The parameter maps: up to MaxParams items with distinct names.
ParamLists ==
    {l \in UNION {[1..n -> ParamNames \X ParamValues] : n \in 0..MaxParams} :
        \A i, j \in DOMAIN l : i # j => l[i][1] # l[j][1]}

\* The same map built in another insertion order.
Reordered(l) ==
    {m \in ParamLists : Len(m) = Len(l) /\ {m[i] : i \in DOMAIN m} = {l[i] : i \in DOMAIN l}}

\* The key is generated for the first insertion order.
GenerateKey ==
    /\ kKey = <<>>
    /\ kKey' = GenerateCacheKey(kEndpoint, kParams)
    /\ UNCHANGED <<kEndpoint, kParams, kOther, kKeyOther, kEndpointOther>>
    /\ UNCHANGED <<rlVars, ctlVars, batchVars, apiVars, cacheVars, callVars, multiVars, dbVars>>

\* The key is generated for the other insertion order.
GenerateKeyOther ==
    /\ kKeyOther = <<>>
    /\ kKeyOther' = GenerateCacheKey(kEndpointOther, kOther)
    /\ UNCHANGED <<kEndpoint, kParams, kOther, kKey, kEndpointOther>>
    /\ UNCHANGED <<rlVars, ctlVars, batchVars, apiVars, cacheVars, callVars, multiVars, dbVars>>

KeyInitIdle ==
    /\ kEndpoint = <<>>
    /\ kEndpointOther = <<>>
    /\ kParams = <<>>
    /\ kOther = <<>>
    /\ kKey = <<>>
    /\ kKeyOther = <<>>

\* ------------------------------------------------------- DatabaseManager
\* models/database.py: add_to_watchlist and get_watchlist_tickers, for the one
\* user "default".  Row ids are given in insertion order.

\* Tickers as callers write them, and the names of the watchlists they name.
DbTickers == {"aapl", "AAPL", "MSFT", "TSLA"}
DefaultName == "Default Watchlist"
ListNames == {DefaultName, "Tech"}

\* ticker.upper()
TickerUpper(t) == IF t = "aapl" THEN "AAPL" ELSE t

\* get_or_create_stock: the stocks table afterwards, and the row's id.
GetOrCreateStock(stocks, u) ==
    IF \E i \in DOMAIN stocks : stocks[i] = u THEN stocks ELSE Append(stocks, u)

StockId(stocks, u) == CHOOSE i \in DOMAIN stocks : stocks[i] = u

\* The row a watchlist_name selects: for the default name the row with
\* is_default (get_default_watchlist), else the row of that name.
Selects(row, name) ==
    IF name = DefaultName THEN row.is_default ELSE row.name = name

\* The watchlists table after the get-or-create, and the row's id.
GetOrCreateList(lists, name) ==
    IF \E w \in DOMAIN lists : Selects(lists[w], name) THEN lists
    ELSE Append(lists, [name |-> name, is_default |-> (name = DefaultName)])

ListId(lists, name) ==
    CHOOSE w \in DOMAIN lists :
        /\ Selects(lists[w], name)
        /\ \A x \in DOMAIN lists : Selects(lists[x], name) => w <= x

\* The item is never found.
Existing_Never(items, w, sid) == FALSE

\* 'existing': the watchlist already has an item for the stock.
Existing(items, w, sid) ==
    \E it \in items : it.watchlist_id = w /\ it.stock_id = sid

\* func.max(WatchlistItem.position) of the watchlist, 'or 0', plus one.
NextPosition(items, w) ==
    LET ps == {it.position : it \in {x \in items : x.watchlist_id = w}} IN
    IF ps = {} THEN 1 ELSE (CHOOSE p \in ps : \A q \in ps : q <= p) + 1

\* add_to_watchlist(ticker, watchlist_name) commits and returns True.
AddToWatchlist(t, name) ==
    /\ dbCalls < MaxAdds
    /\ dbCalls' = dbCalls + 1
    /\ LET u == TickerUpper(t)
           stocks == GetOrCreateStock(dbStocks, u)
           sid == StockId(stocks, u)
           lists == GetOrCreateList(dbLists, name)
           w == ListId(lists, name)
           new == ~Existing(dbItems, w, sid) IN
       /\ dbStocks' = stocks
       /\ dbLists' = lists
       /\ dbItems' = IF new
                     THEN dbItems \cup {[watchlist_id |-> w, stock_id |-> sid,
                                         position |-> NextPosition(dbItems, w)]}
                     ELSE dbItems
       /\ dbFirst' = IF name = DefaultName /\ \A i \in DOMAIN dbFirst : dbFirst[i] # u
                     THEN Append(dbFirst, u) ELSE dbFirst
    /\ dbOk' = dbOk + 1
    /\ UNCHANGED <<rlVars, ctlVars, batchVars, apiVars, cacheVars, callVars, multiVars, keyVars>>

\* add_to_watchlist raises inside its try block (the database fails): nothing
\* is committed, the error is logged and False is returned.
AddToWatchlistFails(t, name) ==
    /\ dbCalls < MaxAdds
    /\ dbCalls' = dbCalls + 1
    /\ UNCHANGED <<dbStocks, dbLists, dbItems, dbOk, dbFirst>>
    /\ UNCHANGED <<rlVars, ctlVars, batchVars, apiVars, cacheVars, callVars, multiVars, keyVars>>

\* The rows of a result in ORDER BY position.
RECURSIVE ByPosition(_)
ByPosition(rows) ==
    IF rows = {} THEN <<>>
    ELSE LET r == CHOOSE x \in rows : \A y \in rows : x.position <= y.position IN
         <<r>> \o ByPosition(rows \ {r})

\* get_watchlist_tickers(watchlist_name): stocks joined with the items of the
\* watchlists of that name, ordered by position.
GetWatchlistTickers(name) ==
    LET rows == {it \in dbItems : /\ it.watchlist_id \in DOMAIN dbLists
                                  /\ dbLists[it.watchlist_id].name = name}
        sorted == ByPosition(rows) IN
    [i \in DOMAIN sorted |-> dbStocks[sorted[i].stock_id]]

DbInitEmpty ==
    /\ dbStocks = <<>>
    /\ dbLists = <<>>
    /\ dbItems = {}
    /\ dbCalls = 0
    /\ dbOk = 0
    /\ dbFirst = <<>>

\* ------------------------------------------------- get_multiple_stock_data
\* services/api_service.py, lines 323-354.  The task of position i runs
\* get_stock_info(tickers[i]) as caller i.

\* The tickers arguments: lists of distinct tickers, one per caller at most.
TickerLists ==
    {l \in UNION {[1..n -> Tickers] : n \in 0..NumCallers} :
        \A i, j \in DOMAIN l : i # j => l[i] # l[j]}

\* The entry the collection loop stores for a task that raised.
UnknownFailure(e) == APIResponse(FALSE, "None", <<e>>, "UNKNOWN_ERROR", 0, FALSE)

\* What 'await task' gives the collection loop for position i, and a
\* variant that lets the first exception stand for every later task.
Collected_FirstFailureWins(i) ==
    IF \E j \in 1..i : rq[j].pc = "raised"
    THEN UnknownFailure("RuntimeError")
    ELSE resp[i]

\* 'response = await task', with the except clause.
Collected(i) ==
    IF rq[i].pc = "raised" THEN UnknownFailure(rq[i].up.exc) ELSE resp[i]

\* The call: one task per ticker is created.
MultiStart(l) ==
    /\ mpc = "idle"
    /\ \A c \in RLCallers : rq[c].pc = "idle"
    /\ mList' = l
    /\ mIdx' = 1
    /\ mResults' = <<>>
    /\ mpc' = IF Len(l) = 0 THEN "done" ELSE "collect"
    /\ UNCHANGED <<cacheVars, callVars>>
    /\ UNCHANGED <<dbVars, keyVars, rlVars, ctlVars, batchVars, apiVars>>

\* The task of position i starts: get_stock_info(ticker).
MultiTaskRun(i) ==
    /\ mpc = "collect"
    /\ i \in DOMAIN mList
    /\ MakeRequest(i, "GET", mList[i], FALSE, -1)

\* The collection loop takes the result of the task it is waiting for.
MultiCollect ==
    /\ mpc = "collect"
    /\ rq[mIdx].pc \in {"done", "raised"}
    /\ mResults' = [t \in DOMAIN mResults \cup {mList[mIdx]} |->
                       IF t = mList[mIdx] THEN Collected(mIdx) ELSE mResults[t]]
    /\ mIdx' = mIdx + 1
    /\ mpc' = IF mIdx = Len(mList) THEN "done" ELSE "collect"
    /\ UNCHANGED <<mList, cacheVars, callVars>>
    /\ UNCHANGED <<dbVars, keyVars, rlVars, ctlVars, batchVars, apiVars>>

MultiInitIdle ==
    /\ mpc = "idle"
    /\ mList = <<>>
    /\ mIdx = 0
    /\ mResults = <<>>

\* The state of the cache, the request path and the batch helpers at
\* construction.
ReqInitIdle ==
    /\ CacheInitEmpty
    /\ CallInitIdle
    /\ MultiInitIdle
    /\ KeyInitIdle
    /\ DbInitEmpty

\* ---- the specifications

CtlInitIdle ==
    /\ active = [t \in Tickers |-> 0]
    /\ progressOf = [t \in Tickers |-> 0]
    /\ prog = [c \in Calls |-> NoProgress]
    /\ ctick = [c \in Calls |-> 0]
    /\ opc = [c \in Calls |-> "idle"]
    /\ ret = [c \in Calls |-> "none"]
    /\ task = [c \in Calls |-> NoTask]
    /\ mustCancel = [c \in Calls |-> FALSE]
    /\ lastReq = [c \in Calls |-> "none"]
    /\ cancelSeen = [c \in Calls |-> "no"]
    /\ nCancel = 0
    /\ cancelRet = "none"
    /\ mutex = 0
    /\ bpc = "idle"
    /\ sem = 0
    /\ results = [t \in Tickers |-> "absent"]
    /\ session = "none"
    /\ broken = {}

\* Steps of the pipeline tasks and of analyze_ticker after 'await task'.
RunNext ==
    \/ \E c \in Calls : AnalyzeResume(c)
    \/ \E c \in Calls : TaskStart(c)
    \/ \E c \in Calls : Dispatch(c)
    \/ \E c \in Calls : Response(c)
    \/ \E c \in Calls : AnalysisDone(c)
    \/ \E c \in Calls : CloseDone(c)
    \/ \E c \in Calls : TaskCancelled(c)

\* The orchestrator under concurrent analyze_ticker and cancel_analysis calls;
\* the rate limiter is idle, at a fixed rate, and no batch runs.
Init ==
    /\ RLInitIdle
    /\ rate = 1
    /\ CtlInitIdle
    /\ ReqInitIdle
    /\ maxc = 1
    /\ scenario = 0

Next ==
    \/ \E c \in DirectCalls, t \in Tickers : AnalyzeTicker(c, t)
    \/ \E t \in Tickers : CancelAnalysis(t)
    \/ RunNext

Spec == Init /\ [][Next]_vars

\* One batch_analyze_watchlist call over the watchlist, with cancel_analysis
\* calls from outside.
InitBatch ==
    /\ RLInitIdle
    /\ rate = 1
    /\ CtlInitIdle
    /\ ReqInitIdle
    /\ maxc \in 1..NumTickers
    /\ scenario \in 0..NumTickers

NextBatch ==
    \/ BatchStart
    \/ \E c \in BatchCalls : WrapperEnter(c)
    \/ \E c \in BatchCalls : WrapperFault(c)
    \/ \E t \in Tickers : CancelAnalysis(t)
    \/ RunNext
    \/ BatchFinish

SpecBatch == InitBatch /\ [][NextBatch]_vars

\* A batch while a caller outside it calls analyze_ticker and cancel_analysis.
\* The event loop runs every task that can run: each wrapper waiting at a free
\* semaphore, each pipeline step (every request is answered or times out),
\* each resumption of analyze_ticker and the end of gather.
\* One caller outside the batch, fewer slots than tickers, any upstream answer.
InitBatchLive ==
    /\ RLInitIdle
    /\ rate = 1
    /\ CtlInitIdle
    /\ ReqInitIdle
    /\ maxc \in 1..(NumTickers - 1)
    /\ scenario = 0

Outsider == NumTickers + 1

NextBatchLive ==
    \/ NextBatch
    \/ \E t \in Tickers : AnalyzeTicker(Outsider, t)

FairBatch ==
    /\ \A c \in BatchCalls : WF_vars(WrapperEnter(c) \/ WrapperFault(c))
    /\ \A c \in Calls :
          /\ WF_vars(AnalyzeResume(c))
          /\ WF_vars(TaskStart(c))
          /\ WF_vars(Dispatch(c))
          /\ WF_vars(Response(c))
          /\ WF_vars(AnalysisDone(c))
          /\ WF_vars(CloseDone(c))
          /\ WF_vars(TaskCancelled(c))
    /\ WF_vars(BatchFinish)

SpecBatchLive == InitBatchLive /\ [][NextBatchLive]_vars /\ FairBatch

\* The rate limiter alone: the controller is idle.
InitRL ==
    /\ RLInitIdle
    /\ rate \in Rates
    /\ CtlInitIdle
    /\ ReqInitIdle
    /\ maxc = 1
    /\ scenario = 0

NextRL ==
    \/ \E p \in RLCallers : RLAcquire(p) /\ UNCHANGED <<ctlVars, batchVars, apiVars, reqVars>>
    \/ \E p \in RLCallers : RLGranted(p) /\ UNCHANGED <<ctlVars, batchVars, apiVars, reqVars>>
    \/ \E p \in RLCallers : RLWakeUp(p) /\ UNCHANGED <<ctlVars, batchVars, apiVars, reqVars>>
    \/ \E p \in RLCallers : RLCancelled(p) /\ UNCHANGED <<ctlVars, batchVars, apiVars, reqVars>>
    \/ Tick /\ UNCHANGED <<ctlVars, batchVars, apiVars, reqVars>>

SpecRL == InitRL /\ [][NextRL]_vars

\* The rate limiter with callers that arrive during a bounded interval. The
\* event loop runs a queued caller when the lock is free and a sleeper when its
\* time has come, and time passes.
\* The steps of the rate limiter, the rest of the program unchanged.
RestIdle == UNCHANGED <<ctlVars, batchVars, apiVars, reqVars>>

NextRLLive ==
    \/ \E p \in RLCallers : clock < MaxClock /\ RLAcquire(p) /\ RestIdle
    \/ \E p \in RLCallers : RLGranted(p) /\ RestIdle
    \/ \E p \in RLCallers : RLWakeUp(p) /\ RestIdle
    \/ \E p \in RLCallers : RLCancelled(p) /\ RestIdle
    \/ TimePasses /\ RestIdle

FairRL ==
    /\ \A p \in RLCallers :
          /\ WF_vars(RLGranted(p) /\ RestIdle)
          /\ WF_vars(RLWakeUp(p) /\ RestIdle)
    /\ WF_vars(TimePasses /\ RestIdle)

SpecRLLive == InitRL /\ [][NextRLLive]_vars /\ FairRL

\* The cache alone: direct set() and get() calls while time passes.
InitCache ==
    /\ RLInitIdle
    /\ rate = 1
    /\ CtlInitIdle
    /\ ReqInitIdle
    /\ maxc = 1
    /\ scenario = 0

NextCache ==
    \/ \E k \in Keys, v \in Payloads, ttl \in Ttls : CacheSet(k, v, ttl)
    \/ \E k \in Keys : CacheGet(k)
    \/ Tick /\ UNCHANGED <<ctlVars, batchVars, apiVars, reqVars>>

SpecCache == InitCache /\ [][NextCache]_vars

\* Concurrent _make_request calls on one service while time passes.
InitApi ==
    /\ RLInitIdle
    /\ rate = 1
    /\ CtlInitIdle
    /\ ReqInitIdle
    /\ maxc = 1
    /\ scenario = 0

\* A call ends only after the callers of the calls that ended before it have
\* taken their results (taking a result changes nothing in the service), and
\* of the idle callers, which are interchangeable, the first makes the call.
NextApi ==
    \/ \E c \in RLCallers, a \in RequestArgs :
          ResultsTaken /\ FirstIdle(c) /\ MakeRequest(c, a.method, a.key, a.bypass, a.ttl)
    \/ \E c \in RLCallers : ResultsTaken /\ SessionFault(c)
    \/ \E c \in RLCallers : DispatchRequest(c)
    \/ \E c \in RLCallers, o \in UpstreamOutcomes : ResultsTaken /\ Respond(c, o)
    \/ \E c \in RLCallers : CallerResumes(c)
    \/ clock < MaxApiClock /\ Tick /\ UNCHANGED <<ctlVars, batchVars, apiVars, reqVars>>

SpecApi == InitApi /\ [][NextApi]_vars

\* One get_multiple_stock_data call.
InitMulti ==
    /\ RLInitIdle
    /\ rate = 1
    /\ CtlInitIdle
    /\ ReqInitIdle
    /\ maxc = 1
    /\ scenario = 0

NextMulti ==
    \/ \E l \in TickerLists : MultiStart(l)
    \/ \E i \in RLCallers : MultiTaskRun(i)
    \/ \E c \in RLCallers : SessionFault(c)
    \/ \E c \in RLCallers : DispatchRequest(c)
    \/ \E c \in RLCallers, o \in UpstreamOutcomes : Respond(c, o)
    \/ MultiCollect

SpecMulti == InitMulti /\ [][NextMulti]_vars

\* _generate_cache_key applied to one parameter map in two insertion orders.
InitKey ==
    /\ RLInitIdle
    /\ rate = 1
    /\ CtlInitIdle
    /\ CacheInitEmpty
    /\ CallInitIdle
    /\ MultiInitIdle
    /\ DbInitEmpty
    /\ maxc = 1
    /\ scenario = 0
    /\ kEndpoint \in Endpoints
    /\ kEndpointOther = kEndpoint
    /\ kParams \in ParamLists
    /\ kOther \in Reordered(kParams)
    /\ kKey = <<>>
    /\ kKeyOther = <<>>

NextKey ==
    \/ GenerateKey
    \/ GenerateKeyOther

SpecKey == InitKey /\ [][NextKey]_vars

\* _generate_cache_key for the arguments of two requests.
InitKeyPair ==
    /\ RLInitIdle
    /\ rate = 1
    /\ CtlInitIdle
    /\ CacheInitEmpty
    /\ CallInitIdle
    /\ MultiInitIdle
    /\ DbInitEmpty
    /\ maxc = 1
    /\ scenario = 0
    /\ kEndpoint \in Endpoints
    /\ kEndpointOther \in Endpoints
    /\ kParams \in ParamLists
    /\ kOther \in ParamLists
    /\ kKey = <<>>
    /\ kKeyOther = <<>>

SpecKeyPair == InitKeyPair /\ [][NextKey]_vars

\* The database alone: add_to_watchlist calls one after the other.
InitDb ==
    /\ RLInitIdle
    /\ rate = 1
    /\ CtlInitIdle
    /\ ReqInitIdle
    /\ maxc = 1
    /\ scenario = 0

NextDb ==
    \/ \E t \in DbTickers, name \in ListNames : AddToWatchlist(t, name)
    \/ \E t \in DbTickers, name \in ListNames : AddToWatchlistFails(t, name)

SpecDb == InitDb /\ [][NextDb]_vars


\* ================================================================ claims

\* ---- C1 (SpecRL)
\* C1: under any interleaving of concurrent acquire() callers, two successive
\* values committed to _last differ by at least min_interval.
C1_MinGap ==
    Len(rlHistory) = 2 => rlHistory[2] - rlHistory[1] >= min_interval

\* Two commits were made under throttling while another caller queues for the lock.
C1_Witness ==
    /\ Len(rlHistory) = 2
    /\ rate > 0
    /\ \E p \in RLCallers : rlpc[p] = "wait"

\* ---- C2 (Spec)
RunsOf(t) == {c \in Calls : ctick[c] = t}

\* At most one pipeline task and one awaiting analyze_ticker per ticker.
C2_OneRun ==
    \A t \in Tickers :
        /\ Cardinality({c \in RunsOf(t) : TaskLive(c)}) <= 1
        /\ Cardinality({c \in RunsOf(t) : opc[c] = "await"}) <= 1

\* A call made while its ticker is registered returns False at once and
\* starts nothing.
C2_Rejected ==
    \A c \in Calls :
        (/\ opc[c] \in {"idle", "sem"}
         /\ opc'[c] \in {"await", "done"}
         /\ active[ctick'[c]] # 0)
        => /\ opc'[c] = "done"
           /\ ret'[c] = "False"
           /\ UNCHANGED <<active, progressOf, prog, task>>

\* C2: of two concurrent analyze_ticker calls for one ticker the second is
\* rejected (returns False) while the first is active, exactly one pipeline
\* runs for the ticker, and the registry never holds more than one live run
\* per ticker.
C2_SecondRejected == []C2_OneRun /\ [][C2_Rejected]_vars

\* A second call for the ticker was rejected while the first run's pipeline is live.
C2_Witness ==
    \E c1 \in Calls, c2 \in Calls :
        /\ c1 # c2 /\ ctick[c1] = ctick[c2]
        /\ opc[c1] = "await" /\ TaskLive(c1)
        /\ opc[c2] = "done" /\ ret[c2] = "False" /\ prog[c2].status = "idle"

\* ---- C3 (Spec)
\* Every registry entry belongs to a run that has not returned.
C3_EntryIsLive ==
    \A t \in Tickers :
        active[t] # 0 => opc[active[t]] = "await" /\ ctick[active[t]] = t

\* When analyze_ticker returns after its pipeline, the ticker is unregistered.
C3_Removed ==
    \A c \in Calls :
        (opc[c] = "await" /\ opc'[c] = "done") => active'[ctick[c]] = 0

\* C3: whenever a registered pipeline terminates (success, error or
\* cancellation), its ticker is no longer in _active_analyses once
\* analyze_ticker returns; no terminated run leaves an entry behind.
C3_NoEntryLeft == []C3_EntryIsLive /\ [][C3_Removed]_vars

\* A cancelled run and a failed run have returned and the registry is empty.
C3_Witness ==
    /\ \E c \in Calls : opc[c] = "done" /\ prog[c].status = "cancelled"
    /\ \E c \in Calls : opc[c] = "done" /\ prog[c].status = "error"
    /\ \A t \in Tickers : active[t] = 0

\* ---- C4 (Spec)
\* C4: a run whose pipeline task was cancelled by cancel_analysis before it
\* finished ends with status CANCELLED, never ERROR, with no error_message,
\* and its ticker's registry entry is removed.
C4_CancelledStatus ==
    \A c \in Calls :
        /\ (cancelSeen[c] = "live" /\ TaskDone(c)) => task[c].pc = "cancelled"
        /\ (cancelSeen[c] = "live" /\ opc[c] = "done")
           => /\ prog[c].status = "cancelled"
              /\ ~prog[c].error_message
              /\ active[ctick[c]] # c

\* A run cancelled in the middle of its steps has returned.
C4_Witness ==
    \E c \in Calls :
        /\ cancelSeen[c] = "live" /\ opc[c] = "done"
        /\ prog[c].status = "cancelled" /\ prog[c].completed_steps >= 1

\* ---- C5 (Spec)
\* C5: cancel_analysis for a ticker that is not registered returns False and
\* leaves the registry, every progress record and every task unchanged.
C5_CancelUnregistered ==
    [][\A t \in Tickers :
         (CancelAnalysis(t) /\ active[t] = 0)
         => /\ cancelRet' = "False"
            /\ UNCHANGED <<active, progressOf, prog, task, mustCancel, opc, ret>>]_vars

\* cancel_analysis answered False while a run of another ticker is active.
C5_Witness ==
    /\ cancelRet = "False"
    /\ \E c \in Calls : opc[c] = "await"

\* ---- C6 (Spec)
\* C6: every run for which cancel_analysis returned True ends with status
\* CANCELLED, also when the call came after the pipeline task had finished
\* and before its registry entry was removed.
C6_TrueMeansCancelled ==
    \A c \in Calls :
        (cancelSeen[c] # "no" /\ opc[c] = "done") => prog[c].status = "cancelled"

RunningTickers ==
    {t \in Tickers : progressOf[t] # 0 /\ prog[progressOf[t]].status = "running"}

C9_OthersSucceed ==
    (/\ bpc = "done"
     /\ scenario # 0
     /\ nCancel = 0
     /\ \A c \in BatchCalls : opc[c] # "raised")
    => \A t \in Tickers : results[t] = IF t = scenario THEN "False" ELSE "True"

\* ---- C10 (SpecBatch)
\* C10: the batch's map has an entry for every ticker of the batch; a ticker
\* whose task ended with an unexpected exception is recorded as a failure.
C10_EveryTickerRecorded ==
    bpc = "done"
    => \A t \in Tickers :
          /\ results[t] # "absent"
          /\ opc[t] = "raised" => results[t] = "False"

\* C11: once a GET has succeeded and been cached, a later identical GET
\* (bypass_cache false) made before the entry expires returns success=True,
\* cached=True and the stored payload, with no dispatch and no acquire().
\* Every stored entry is the non-empty payload of a successful cached GET.
C11_EntriesServable ==
    \A k \in Keys : store[k].present => Truthy(store[k].value)

C11_HitStep ==
    \A c \in RLCallers :
        (/\ rq[c].pc = "idle"
         /\ rq'[c].pc # "idle"
         /\ Cacheable(rq'[c].method, rq'[c].bypass)
         /\ store[rq'[c].key].present
         /\ clock < store[rq'[c].key].expires)
        => /\ rq'[c].pc = "done"
           /\ resp'[c] = CachedResponse(store[rq'[c].key].value)
           /\ rq'[c].acq = 0 /\ rq'[c].disp = 0
           /\ nAcquire' = nAcquire
           /\ nDispatch' = nDispatch

C11_CacheHitServed == []C11_EntriesServable /\ [][C11_HitStep]_vars

C11_Witness ==
    \E c \in RLCallers :
        /\ rq[c].pc = "done"
        /\ resp[c].cached /\ resp[c].success /\ resp[c].data = "P2"
        /\ request_counter = 2 /\ nAcquire = 1 /\ nDispatch = 1

\* C12 (as stated): a call makes exactly one acquire() when it dispatches and
\* none when served from the cache, and at most one cache write; whenever no
\* call is waiting in acquire(), the number of acquire() calls equals the
\* number of dispatches.
C12_PerCall ==
    \A c \in RLCallers :
        /\ rq[c].disp = 1 => rq[c].acq = 1
        /\ (rq[c].pc = "done" /\ resp[c].cached) => rq[c].acq = 0 /\ rq[c].disp = 0
        /\ rq[c].wrote <= 1

C12_NoneWaiting == \A c \in RLCallers : rq[c].pc # "acq"

C13_StoredStep ==
    \A c \in RLCallers :
        (/\ rq[c].pc = "fly"
         /\ rq'[c].pc = "done"
         /\ Upper(rq[c].method) = "GET"
         /\ ~rq[c].bypass
         /\ resp'[c].success)
        => /\ store'[rq[c].key].present
           /\ store'[rq[c].key].value = resp'[c].data

C13_SuccessStored == [][C13_StoredStep]_vars

\* C14: every APIResponse returned has success = True exactly when data is
\* present and error_type is absent.
C14_SuccessIffData ==
    \A c \in RLCallers :
        rq[c].pc = "done"
        => (resp[c].success <=> (resp[c].data # "None" /\ resp[c].error_type = "None"))

\* C15: the response is classified by its status: 200 with a parseable body
\* is a success carrying the body, 200 with an unparseable body DATA_ERROR,
\* 401 AUTHENTICATION_ERROR, 429 RATE_LIMIT_ERROR, any other status
\* DATA_ERROR with the status and the body text in the message; status_code
\* is the response's status in every case.
C15_Classified ==
    \A c \in RLCallers :
        (rq[c].pc = "done" /\ rq[c].up.kind = "http")
        => LET st == rq[c].up.status
               b == rq[c].up.body
               r == resp[c] IN
           /\ r.status_code = st
           /\ (st = 200 /\ b \in Payloads) => r.success /\ r.data = b
           /\ (st = 200 /\ b \notin Payloads) => ~r.success /\ r.error_type = "DATA_ERROR"
           /\ st = 401 => ~r.success /\ r.error_type = "AUTHENTICATION_ERROR"
           /\ st = 429 => ~r.success /\ r.error_type = "RATE_LIMIT_ERROR"
           /\ st \notin {200, 401, 429}
              => ~r.success /\ r.error_type = "DATA_ERROR" /\ r.error = <<"API error", st, b>>

\* C16: a failure raised while dispatching gives success=False with
\* TIMEOUT_ERROR for a transport timeout, NETWORK_ERROR for another
\* transport-level client failure and UNKNOWN_ERROR for anything else.
C16_FailureKinds ==
    \A c \in RLCallers :
        (rq[c].pc = "done" /\ rq[c].up.kind = "raise")
        => /\ ~resp[c].success
           /\ resp[c].data = "None"
           /\ resp[c].error_type =
                 CASE rq[c].up.exc \in {"TimeoutError", "ServerTimeoutError"} -> "TIMEOUT_ERROR"
                   [] rq[c].up.exc = "ClientError" -> "NETWORK_ERROR"
                   [] OTHER -> "UNKNOWN_ERROR"

C16_Witness ==
    \E c \in RLCallers :
        /\ rq[c].pc = "done"
        /\ rq[c].up.exc = "ServerTimeoutError"
        /\ resp[c].error_type = "TIMEOUT_ERROR"

\* C17: _make_request never raises: whatever fails, at whatever point of the
\* request, the call ends by returning an APIResponse.
C17_NeverRaises ==
    \A c \in RLCallers : rq[c].pc # "raised"

\* C18: get_multiple_stock_data makes one request per ticker and returns an
\* entry for every ticker: an UNKNOWN_ERROR failure for a ticker whose
\* request raised, and for every other ticker the result of its own request.
C18_EveryTickerOwnResult ==
    mpc = "done"
    => /\ DOMAIN mResults = {mList[i] : i \in DOMAIN mList}
       /\ request_counter = Len(mList)
       /\ \A i \in DOMAIN mList :
             /\ rq[i].key = mList[i]
             /\ rq[i].pc = "raised"
                => /\ ~mResults[mList[i]].success
                   /\ mResults[mList[i]].error_type = "UNKNOWN_ERROR"
             /\ rq[i].pc = "done" => mResults[mList[i]] = resp[i]

C18_Witness ==
    /\ mpc = "done"
    /\ Len(mList) = 2
    /\ rq[1].pc = "raised"
    /\ rq[2].pc = "done" /\ resp[2].success
    /\ mResults[mList[2]].success

\* C19: set(key, v, ttl) followed immediately by get(key) returns v, and
\* get(key) once ttl has elapsed, with no set in between, returns absent.
C19_SetThenGet ==
    (lastGet.key # 0 /\ lastGet.key = lastSet.key)
    => /\ lastGet.at = lastSet.at => lastGet.value = lastSet.value
       /\ (lastSet.ttl > 0 /\ lastGet.at >= lastSet.at + lastSet.ttl)
          => lastGet.value = "None"

\* C20: get(key) returns the stored value only while now < expiresAt: from
\* the instant now = expiresAt on it returns absent.
C20_VisibleOnlyBeforeExpiry ==
    \A k \in Keys :
        (lastGet.key = k /\ store[k].present /\ lastGet.at >= store[k].expires)
        => lastGet.value = "None"

\* C21: the cache key does not depend on the insertion order of the
\* parameters: two maps with the same items give the same key; without
\* parameters the key is the endpoint.
C21_OrderIndependent ==
    /\ (kKey # <<>> /\ kKeyOther # <<>>) => kKey = kKeyOther
    /\ (kKey # <<>> /\ Len(kParams) = 0) => kKey = kEndpoint

C21_Witness ==
    /\ kKey # <<>>
    /\ kKeyOther # <<>>
    /\ Len(kParams) = 2
    /\ kParams # kOther
    /\ kKey = kKeyOther

\* ---- C22 (Spec)
\* A run that has left the analysis step with a result has run all six steps.
C22_SixSteps ==
    \A c \in Calls : task[c].pc \in {"closeT", "ok"} => prog[c].completed_steps = 6

\* The answer to an optional fetch (steps 2 to 4), whatever it is, takes an
\* uncancelled run to the next step.
C22_NextStep ==
    \A c \in Calls :
        (/\ task[c].pc = "fly" /\ task[c].k \in 2..4
         /\ ~mustCancel[c]
         /\ task'[c] # task[c])
        => /\ task'[c].pc \in {"acq", "fly", "ana"}
           /\ task'[c].k = task[c].k + 1
           /\ prog'[c].completed_steps = task[c].k + 1
           /\ prog'[c].status = "running"

\* analyze_ticker resumes from a task that returned: COMPLETED, True.
C22_ResumeCompleted ==
    \A c \in Calls :
        (opc[c] = "await" /\ opc'[c] = "done" /\ task[c].pc = "ok")
        => /\ prog'[c].status = "completed"
           /\ prog'[c].completed_steps = 6
           /\ ret'[c] = "True"

\* C22: a pipeline whose stock-info fetch succeeds ends with status COMPLETED
\* whatever the earnings, options-flow and insider-trades fetches answer: a
\* failed optional fetch is passed on and all six steps still run.
C22_OptionalFailurePassedOn ==
    []C22_SixSteps /\ [][C22_NextStep /\ C22_ResumeCompleted]_vars

\* A task has returned after all six steps although its last optional fetch
\* (insider trades) came back without success.
C22_Witness ==
    \E c \in Calls :
        /\ task[c].pc = "ok"
        /\ lastReq[c] = "failed"
        /\ prog[c].completed_steps = 6

\* ---- C23 (Spec)
\* A stock-info fetch answered without success ends the task's steps: the
\* exception leaves the api_service context, the progress is left as it was.
C23_Aborts ==
    \A c \in Calls :
        (/\ task[c].pc = "fly" /\ task[c].k = 1
         /\ ~mustCancel[c]
         /\ lastReq'[c] = "failed")
        => /\ task'[c].pc \in {"closeE", "exc"}
           /\ prog'[c] = prog[c]

\* A task ending with an exception starts no step and dispatches no request.
C23_NothingLater ==
    \A c \in Calls :
        task[c].pc \in {"closeE", "exc"}
        => /\ task'[c].pc \in {"closeE", "exc", "cancelled", "none"}
           /\ lastReq'[c] \in {lastReq[c], "none"}
           /\ prog'[c].completed_steps = prog[c].completed_steps

\* analyze_ticker resumes from a task that raised: ERROR, a message, False.
C23_ResumeError ==
    \A c \in Calls :
        (opc[c] = "await" /\ opc'[c] = "done" /\ task[c].pc = "exc")
        => /\ prog'[c].status = "error"
           /\ prog'[c].error_message
           /\ ret'[c] = "False"

\* C23: a pipeline whose stock-info fetch returns a non-success APIResponse
\* aborts: no later step runs, no further request is issued for the run, the
\* status becomes ERROR with an error message and analyze_ticker returns False.
C23_MandatoryFailureAborts ==
    [][C23_Aborts /\ C23_NothingLater /\ C23_ResumeError]_vars

\* A run has ended in its first step: ERROR, a message, False.
C23_Witness ==
    \E c \in Calls :
        /\ opc[c] = "done" /\ ret[c] = "False"
        /\ prog[c].status = "error" /\ prog[c].error_message
        /\ prog[c].completed_steps = 1

\* ---- C24 (Spec)
\* C24: completed_steps is the number of pipeline steps that have completed:
\* a run in step k has completed k - 1 steps (0 in its first step), and
\* progress_percent is completed_steps / total_steps * 100.
C24_CountsCompletedSteps ==
    \A c \in Calls :
        task[c].pc \in {"acq", "fly", "ana"}
        => /\ prog[c].completed_steps = task[c].k - 1
           /\ prog[c].progress_percent = StepPercent(prog[c].completed_steps)

\* ---- C25 (Spec)
\* C25: every mutation of the registry (_active_analyses) and of the progress
\* map (_analysis_progress) happens while the controller's lock is held.
C25_RegistryUnderLock ==
    [][(active' # active \/ progressOf' # progressOf) => mutex # 0]_vars

\* ---- C26 (SpecRL)
\* C26: the RateLimiter's lock is never held across a suspension point: no
\* caller sleeps for the wait interval while it holds the lock.
C26_NoSleepUnderLock ==
    \A p \in RLCallers : rlpc[p] = "sleep" => rlLock # p

\* ---- C27 (Spec)
\* The 'progress' a task works on is the record its own call created.
C27_OwnRecord ==
    \A c \in Calls : task[c].pref \in {0, c}

\* A record with a terminal status is not changed by any step.
C27_TerminalFrozen ==
    \A c \in Calls :
        prog[c].status \in {"completed", "error", "cancelled"} => prog'[c] = prog[c]

\* A record changes only in a step of the call that created it: the call's
\* own start or resumption, or a step of its own task.
C27_OwnerWrites ==
    \A c \in Calls :
        prog'[c] # prog[c] => (opc'[c] # opc[c] \/ task'[c] # task[c])

\* An accepted call installs a new record for its ticker: RUNNING, no step
\* completed; the record installed before is left as it is.
C27_NewRecord ==
    \A c \in Calls :
        (opc[c] \in {"idle", "sem"} /\ opc'[c] = "await")
        => /\ progressOf'[ctick'[c]] = c
           /\ prog'[c] = NewProgress
           /\ \A d \in Calls \ {c} : prog'[d] = prog[d]

\* C27: a record that has reached COMPLETED, ERROR or CANCELLED is never
\* mutated again; the next run for the ticker installs a new record (RUNNING,
\* completed_steps 0); a record is mutated only by the run that created it.
C27_ReplacedNotMutated ==
    /\ []C27_OwnRecord
    /\ [][C27_TerminalFrozen /\ C27_OwnerWrites /\ C27_NewRecord]_vars

\* A second run of a ticker works on its own record while the record of the
\* first run, which ended, still shows the first run's outcome.
C27_Witness ==
    \E c1 \in Calls, c2 \in Calls :
        /\ c1 # c2 /\ ctick[c1] = ctick[c2]
        /\ opc[c1] = "done" /\ prog[c1].status \in {"completed", "error", "cancelled"}
        /\ opc[c2] = "await" /\ progressOf[ctick[c2]] = c2
        /\ task[c2].pref = c2
        /\ prog[c2].status = "running" /\ prog[c2].completed_steps > 0

\* ---- C28 (Spec)
\* C28: a rejected analyze_ticker call does no new work: it returns False and
\* leaves the registry, the progress map and every progress record, the
\* tasks, the session and the requests issued as they were.
C28_RejectedNoWork ==
    [][\A c \in Calls :
         (/\ opc[c] \in {"idle", "sem"}
          /\ opc'[c] = "done"
          /\ ret'[c] = "False")
         => /\ active[ctick'[c]] # 0
            /\ UNCHANGED <<active, progressOf, prog, task, lastReq, mustCancel>>
            /\ UNCHANGED <<session, broken, reqVars, rlVars>>]_vars

\* A call was rejected while the run it collided with has a request in flight.
C28_Witness ==
    \E c1 \in Calls, c2 \in Calls :
        /\ c1 # c2 /\ ctick[c1] = ctick[c2]
        /\ opc[c2] = "done" /\ ret[c2] = "False" /\ prog[c2] = NoProgress
        /\ opc[c1] = "await" /\ task[c1].pc = "fly"
        /\ active[ctick[c1]] = c1 /\ progressOf[ctick[c1]] = c1

\* ---- C29 (SpecApi)
\* A finished call that was not a GET, bypassed the cache, or ended in a failure.
C29_NotStoring(c) ==
    /\ rq[c].pc = "done"
    /\ rq[c].disp = 1
    /\ \/ Upper(rq[c].method) # "GET"
       \/ rq[c].bypass
       \/ ~resp[c].success

C29_WroteNothing ==
    \A c \in RLCallers :
        C29_NotStoring(c)
        => /\ rq[c].wrote = 0
           /\ rq[c].evicted = 1 => Cacheable(rq[c].method, rq[c].bypass)

\* The answer to such a call leaves the store as it is.
C29_AnswerFrame ==
    \A c \in RLCallers :
        (/\ rq[c].pc = "fly" /\ rq'[c].pc = "done"
         /\ \/ Upper(rq[c].method) # "GET"
            \/ rq[c].bypass
            \/ ~resp'[c].success)
        => store' = store

\* The lookup of a call changes the store only by removing the expired entry
\* of its own key, and only for a cacheable GET.
C29_LookupFrame ==
    \A c \in RLCallers :
        (rq[c].pc = "idle" /\ rq'[c].pc # "idle")
        => \A k \in Keys :
             store'[k] # store[k]
             => /\ Cacheable(rq'[c].method, rq'[c].bypass)
                /\ k = rq'[c].key
                /\ store[k].present /\ Expired(store[k], clock)
                /\ store'[k] = NoItem

\* The store changes only in a lookup or in the answer to a call that stores.
C29_OnlyCalls ==
    store' # store
    => \E c \in RLCallers :
          \/ rq[c].pc = "idle" /\ rq'[c].pc # "idle"
          \/ rq[c].pc = "fly" /\ rq'[c].pc = "done" /\ rq'[c].wrote = 1

C30_ExpiryIsPassedTtl ==
    [][\A c \in RLCallers :
         (rq[c].pc = "fly" /\ rq'[c].pc = "done" /\ rq'[c].wrote = 1)
         => store'[rq[c].key].expires =
               clock + (IF rq[c].ttl = -1 THEN DefaultTtl ELSE rq[c].ttl)]_vars

\* ---- C31 (SpecCache)
\* get(key): an expired entry is answered with None and removed; a missing or
\* unexpired entry leaves the store as it is.
C31_GetFrame ==
    (lastGet' # lastGet /\ lastGet'.key # 0)
    => LET k == lastGet'.key IN
       IF store[k].present /\ store[k].expires < clock
       THEN /\ lastGet'.value = "None"
            /\ ~store'[k].present
            /\ \A j \in Keys \ {k} : store'[j] = store[j]
       ELSE store' = store

\* set(key, value, ttl): the entry of the key is the new value with the
\* expiry now + ttl, whatever was stored before; other entries are untouched.
C31_SetFrame ==
    lastSet' # lastSet
    => LET k == lastSet'.key IN
       /\ store'[k].present
       /\ store'[k].value = lastSet'.value
       /\ store'[k].expires = clock + lastSet'.ttl
       /\ \A j \in Keys \ {k} : store'[j] = store[j]

C32_SlotsAccounted ==
    bpc # "idle"
    => sem = maxc - Cardinality({c \in BatchCalls : opc[c] = "await"})

\* C32: every outcome of a pipeline (success, error, cancellation, rejected
\* start) frees its admission slot: every ticker of the batch is eventually
\* admitted and the batch eventually returns with all slots free.
C32_BatchReturns ==
    /\ []C32_SlotsAccounted
    /\ \A c \in BatchCalls : (opc[c] = "sem") ~> (opc[c] # "sem")
    /\ (bpc = "gather") ~> (bpc = "done" /\ sem = maxc)

\* The batch has returned with all slots free after a rejected start and a
\* cancelled run, with fewer slots than tickers.
C32_Witness ==
    /\ bpc = "done" /\ sem = maxc /\ maxc < NumTickers
    /\ \E c \in BatchCalls : opc[c] = "done" /\ ret[c] = "False" /\ prog[c] = NoProgress
    /\ \E c \in BatchCalls : opc[c] = "done" /\ prog[c].status = "cancelled"

\* ---- C33 (Spec)
\* Positions of a task inside 'async with api_service', and after its body.
C33_Inside == {"acq", "fly", "ana"}
C33_Leaving == {"closeT", "closeE", "closeC", "ok", "exc", "cancelled"}

\* Entering the context leaves the service with an open session.
C33_EnterOpens ==
    \A c \in Calls :
        (task[c].pc = "ready" /\ task'[c].pc \in C33_Inside) => session' = "open"

\* Leaving the context leaves the session closed, and an open session is
\* closed by nothing else.
C33_ExitCloses ==
    /\ \A c \in Calls :
         (task[c].pc \in C33_Inside /\ task'[c].pc \in C33_Leaving)
         => session' = "closed"
    /\ (session = "open" /\ session' # "open")
       => \E c \in Calls : task[c].pc \in C33_Inside /\ task'[c].pc \in C33_Leaving

\* A dispatch starts on an open session, re-created if it was closed.
C33_DispatchOnOpen ==
    \A c \in Calls :
        (task'[c].pc = "fly" /\ task'[c] # task[c])
        => session' = "open" /\ c \notin broken'

\* C33: inside 'async with' the service holds an open session, after the
\* context exits the session is closed, and a request made after a close
\* re-creates a session before dispatching: a dispatch never starts on a
\* closed session.
C33_SessionLifecycle ==
    [][C33_EnterOpens /\ C33_ExitCloses /\ C33_DispatchOnOpen]_vars

\* A request is in flight on a session opened after an earlier run had left
\* the context and closed the session.
C33_Witness ==
    \E c \in Calls, d \in Calls :
        /\ c # d
        /\ opc[d] = "done" /\ prog[d].status \in {"completed", "error", "cancelled"}
        /\ prog[d].completed_steps > 0
        /\ task[c].pc = "fly" /\ c \notin broken /\ session = "open"

\* ---- C34 (SpecDb)
\* The id of the default watchlist, 0 while there is none.
DefaultListId ==
    IF \E w \in DOMAIN dbLists : dbLists[w].is_default
    THEN ListId(dbLists, DefaultName) ELSE 0

\* C34: add_to_watchlist is idempotent on the stored state: after any number
\* of successful calls for a ticker there is exactly one Stock row for it and
\* exactly one WatchlistItem linking it to the default watchlist, and
\* get_watchlist_tickers returns the tickers in the order of first addition.
C34_Idempotent ==
    /\ \A i \in DOMAIN dbFirst :
         LET rows == {s \in DOMAIN dbStocks : dbStocks[s] = dbFirst[i]} IN
         /\ Cardinality(rows) = 1
         /\ \A s \in rows :
              Cardinality({it \in dbItems : /\ it.watchlist_id = DefaultListId
                                            /\ it.stock_id = s}) = 1
    /\ \A s, r \in DOMAIN dbStocks : dbStocks[s] = dbStocks[r] => s = r
    /\ GetWatchlistTickers(DefaultName) = dbFirst

\* Every call succeeded, each for one of two tickers and the default
\* watchlist: at least one ticker was added more than once.
C34_Witness ==
    /\ dbCalls = MaxAdds /\ dbOk = MaxAdds
    /\ dbFirst = <<"MSFT", "AAPL">>
    /\ Len(dbStocks) = 2
    /\ Cardinality(dbItems) = 2

\* ---- C35 (Spec)
\* C35: at every suspension point a ticker is in _active_analyses if and only
\* if its current AnalysisProgress record has status RUNNING.
C35_RegisteredIffRunning ==
    \A t \in Tickers :
        active[t] # 0
        <=> (progressOf[t] # 0 /\ prog[progressOf[t]].status = "running")

\* One ticker's run has ended and is no longer registered; another ticker's
\* task has finished while its run, not yet resumed, is registered and RUNNING.
C35_Witness ==
    \E t1 \in Tickers, t2 \in Tickers :
        /\ t1 # t2
        /\ active[t1] = 0 /\ progressOf[t1] # 0
        /\ prog[progressOf[t1]].status \in {"completed", "error", "cancelled"}
        /\ active[t2] # 0 /\ progressOf[t2] = active[t2]
        /\ TaskDone(active[t2])
        /\ prog[active[t2]].status = "running"

\* ---- C36 (Spec)
\* C36: no pipeline's exit from the shared api_service context closes the
\* session while another running pipeline has a request in flight on it.
C36_NoCloseUnderRequest ==
    [][\A c \in Calls :
         (session = "open" /\ session' = "closed" /\ task[c].pc = "fly")
         => task'[c].pc # "fly"]_vars

\* ---- C37 (SpecRLLive)
\* The lock is held by a caller asleep inside it, or by none.
C37_HolderSleeps == rlLock # 0 => rlpc[rlLock] = "sleep"

\* C37: every caller of acquire() that is not itself cancelled is eventually
\* released, also when other callers are cancelled while waiting for the lock
\* or while sleeping inside it: a cancelled caller releases the lock.
C37_EventuallyReleased ==
    /\ []C37_HolderSleeps
    /\ \A p \in RLCallers : (rlpc[p] \in {"wait", "sleep"}) ~> (rlpc[p] = "idle")

\* A caller was cancelled in its sleep (it is idle before its wake-up time)
\* and another caller has got the lock since.
C37_Witness ==
    \E p \in RLCallers, q \in RLCallers :
        /\ rlpc[p] = "idle" /\ rlWake[p] > clock
        /\ rlLock = q /\ rlpc[q] = "sleep"

\* ---- C38 (SpecKeyPair)
\* The items of a parameter map.
C38_Items(l) == {l[i] : i \in DOMAIN l}

\* C38: two requests share a cache key only if they have the same endpoint
\* and the same parameter map.
C38_KeyInjective ==
    (kKey # <<>> /\ kKey = kKeyOther)
    => /\ kEndpoint = kEndpointOther
       /\ C38_Items(kParams) = C38_Items(kOther)

\* ---- C39 (Spec)
\* completed_steps stays within total_steps, and a COMPLETED record shows
\* every step completed and 100 percent.
C39_Bounded ==
    \A c \in Calls :
        /\ prog[c].total_steps = 6
        /\ prog[c].completed_steps \in 0..prog[c].total_steps
        /\ prog[c].status = "completed"
           => /\ prog[c].completed_steps = prog[c].total_steps
              /\ prog[c].progress_percent = 1000

\* No step of a run lowers completed_steps.
C39_NoDecrease ==
    \A c \in Calls : prog'[c].completed_steps >= prog[c].completed_steps

\* C39: within one run completed_steps never decreases and never exceeds
\* total_steps (6), and whenever the status is COMPLETED, completed_steps
\* equals total_steps and progress_percent is 100.
C39_MonotoneSteps == []C39_Bounded /\ [][C39_NoDecrease]_vars

\* One run is COMPLETED with six steps and 100 percent; another run ended
\* without completing, part of the way.
C39_Witness ==
    \E c \in Calls, d \in Calls :
        /\ prog[c].status = "completed"
        /\ prog[c].completed_steps = 6 /\ prog[c].progress_percent = 1000
        /\ prog[d].status \in {"error", "cancelled"}
        /\ prog[d].completed_steps \in 2..5

\* ---- C40 (SpecApi)
\* The calls under way have different request ids, none beyond the counter.
C40_DistinctIds ==
    \A c \in RLCallers :
        rq[c].pc # "idle"
        => /\ rq[c].id \in 1..request_counter
           /\ \A d \in RLCallers \ {c} : rq[d].pc # "idle" => rq[d].id # rq[c].id

\* A call counts once, when it starts, and takes the new count as its id,
\* which is above the id of every call before it; nothing else counts.
C40_CountsOnce ==
    /\ \A c \in RLCallers :
         IF rq[c].pc = "idle" /\ rq'[c].pc # "idle"
         THEN /\ request_counter' = request_counter + 1
              /\ rq'[c].id = request_counter'
         ELSE rq'[c].pc # "idle" => rq'[c].id = rq[c].id
    /\ request_counter' # request_counter
       => \E c \in RLCallers : rq[c].pc = "idle" /\ rq'[c].pc # "idle"

\* C40: every _make_request call, served from the cache or dispatched, under
\* any interleaving, increments _request_counter exactly once and gets a
\* request_id that no other call on the instance gets.
C40_UniqueRequestId == []C40_DistinctIds /\ [][C40_CountsOnce]_vars

\* A call served from the cache and a call in flight, started while the
\* other was under way, hold different ids.
C40_Witness ==
    \E c \in RLCallers, d \in RLCallers :
        /\ rq[c].pc = "done" /\ resp[c].cached
        /\ rq[d].pc = "fly"
        /\ rq[c].id # rq[d].id
        /\ request_counter = MaxCalls

====
